---- MODULE Spec2Model ----
(***************************************************************************)
(* Model of the notification / dialog service useShowMessage               *)
(* (src/unnamed/part_000): the module-level stickyNotificationQueue, the   *)
(* notifications handed out by the UI library, the telemetry and           *)
(* external-hook sinks, and the confirm dialogs.                           *)
(*                                                                         *)
(* Strings are sequences of tokens (words and markup tags), so that        *)
(* String.includes, concatenation and sanitizing are computed, not         *)
(* assumed.  An optional value (message?: string, duration?: number) is a  *)
(* record [def, v]; the empty string is Some(<<>>), undefined is None.     *)
(***************************************************************************)
EXTENDS Integers, Sequences, FiniteSets, TLC

\* Number of notifications / messages the UI library hands out in one run; the
\* operations that create one are disabled once it is reached.
MaxHandles == 2

VARIABLES
    stickyNotificationQueue,  \* part_000:12, sequence of notification handles
    notifications,            \* handle -> what the UI library was given and did
    configs,                  \* handle -> the caller's config object after the call
    telemetry,                \* events the last operation passed to telemetry.track
    hooks,                    \* payloads the last operation passed to externalHooks.run
    dialog,                   \* the confirm dialog a caller is awaiting, if any
    lastOp                    \* the operation that ran last, its input and result

vars ==
    <<stickyNotificationQueue, notifications, configs, telemetry, hooks, dialog, lastOp>>

---------------------------------------------------------------------------
\* Optional values and strings

None == [def |-> FALSE, v |-> <<>>]

Some(x) == [def |-> TRUE, v |-> x]

NoDuration == [def |-> FALSE, v |-> 0]

Dur(n) == [def |-> TRUE, v |-> n]

\* JavaScript truthiness of a string | undefined
Truthy(m) == m.def /\ m.v # <<>>

\* String.prototype.includes
Includes(s, sub) ==
    \E i \in 0..(Len(s) - Len(sub)) : SubSeq(s, i + 1, i + Len(sub)) = sub

\* Markup the sanitizer does not let through.
UnsafeMarkup == {"<script>", "</script>"}

\* sanitizeHtml (@/utils): strips unsafe markup, keeps everything else.
sanitizeHtml(s) == SelectSeq(s, LAMBDA t : t \notin UnsafeMarkup)

---------------------------------------------------------------------------
\* causedByCredential, part_000:19-23

causedByCredentialOnlyFirst(message) ==
    IF ~Truthy(message) THEN FALSE
    ELSE Includes(message.v, <<"Credentials", "for">>)

causedByCredential(message) ==
    IF ~Truthy(message) THEN FALSE
    ELSE /\ Includes(message.v, <<"Credentials", "for">>)
         /\ Includes(message.v, <<"are", "not", "set">>)

---------------------------------------------------------------------------
\* showMessage, part_000:57-86

\* part_000:62-64
SanitizedMessage(message) ==
    IF Truthy(message) THEN Some(sanitizeHtml(message.v)) ELSE message

\* part_000:66-68
PositionOrDefault(position) ==
    IF position = "undefined" THEN "bottom-right" ELSE position

\* part_000:72
ShouldEnqueuePositive(messageData) ==
    messageData.duration.def /\ messageData.duration.v > 0

ShouldEnqueueNonZero(messageData) ==
    messageData.duration.def /\ messageData.duration.v # 0

ShouldEnqueueWhenUnset(messageData) ==
    ~messageData.duration.def \/ messageData.duration.v = 0

ShouldEnqueue(messageData) ==
    messageData.duration.def /\ messageData.duration.v = 0

\* part_000:76
ShouldTrack(messageData, track) == messageData.type = "error" /\ track

\* The handle the next call of Notification(...) / Message(...) returns.
NextHandle == Len(notifications) + 1

\* Notification(messageData), part_000:70: the library shows what it is given.
Notification(messageData) ==
    [kind |-> "notification",
     duration |-> messageData.duration,
     onClick |-> messageData.onClick,
     open |-> TRUE,
     closeCalls |-> 0]

\* Message(config), part_000:121: the library's lightweight message component.
Message(config) ==
    [kind |-> "message",
     duration |-> config.duration,
     onClick |-> "undefined",
     open |-> TRUE,
     closeCalls |-> 0]

\* part_000:77-82
ErrorEvent(messageData) ==
    [name |-> "Instance FE emitted error",
     error_message |-> messageData.message,
     caused_by_credential |-> causedByCredential(messageData.message)]

\* What showMessage hands to the library and to telemetry.track.
ShownData(messageData) ==
    [messageData EXCEPT
        !.message = SanitizedMessage(messageData.message),
        !.position = PositionOrDefault(messageData.position)]

TrackedBy(messageData, track) ==
    IF ShouldTrack(ShownData(messageData), track)
    THEN <<ErrorEvent(ShownData(messageData))>>
    ELSE <<>>

\* The body of showMessage as a step on the queue and the notifications; it
\* returns NextHandle and passes TrackedBy(messageData, track) to telemetry.
showMessage(messageData, track) ==
    /\ notifications' = Append(notifications, Notification(ShownData(messageData)))
    /\ stickyNotificationQueue' =
         IF ShouldEnqueue(ShownData(messageData))
         THEN Append(stickyNotificationQueue, NextHandle)
         ELSE stickyNotificationQueue

---------------------------------------------------------------------------
\* clearAllStickyNotifications, part_000:47-55

\* notification.close() of the UI library: the notification leaves the screen.
Close(n) == [n EXCEPT !.open = FALSE, !.closeCalls = @ + 1]

\* part_000:48-52: close() on every element of the queue
ClosedByClear(ns, queue) ==
    [h \in DOMAIN ns |->
        IF \E i \in DOMAIN queue : queue[i] = h THEN Close(ns[h]) ELSE ns[h]]

\* part_000:54
QueueAfterClearKept(queue) == queue

QueueAfterClear(queue) == <<>>

---------------------------------------------------------------------------
\* showToast, part_000:88-119

\* part_000:98-106: the options showToast builds for showMessage
ToastMessageData(config) ==
    [message |-> Some(config.message),
     type |-> config.type,
     duration |-> config.duration,
     position |-> "undefined",
     onClick |-> config.onClick]

\* part_000:108-116: config.onClick is replaced by a closure over cb and the
\* notification; "wrapper(cb)" closes the notification, then calls cb.
Wrapper(cb) == IF cb = "undefined" THEN "wrapper()" ELSE "wrapper(cb)"

ConfigAfterToast(config) ==
    [onClick |-> IF config.closeOnClick THEN Wrapper(config.onClick)
                 ELSE config.onClick,
     closeOnClick |-> config.closeOnClick]

NoConfig == [onClick |-> "undefined", closeOnClick |-> FALSE]

\* What a handler does when called, as the sequence of its calls.
HandlerTrace(handler) ==
    CASE handler = "undefined"   -> <<>>
      [] handler = "cb"          -> <<"cb">>
      [] handler = "wrapper()"   -> <<"close">>
      [] handler = "wrapper(cb)" -> <<"close", "cb">>

---------------------------------------------------------------------------
\* showError, part_000:147-176, and collapsableDetails, part_000:27-45

DescriptionLimit == 500

\* part_000:28-31; a description's tokens stand for its characters
ErrorDescription(description) ==
    IF Len(description) > DescriptionLimit
    THEN SubSeq(description, 1, DescriptionLimit) \o <<"...">>
    ELSE description

\* `${node.name}`: a node given as a plain string has no name property
NodeDotName(node) ==
    IF node.kind = "object" THEN node.name ELSE <<"undefined">>

\* part_000:42 reads node.name: a TypeError when the error carries a
\* description but no node.
CollapsableDetailsThrows(error) ==
    Truthy(error.description) /\ ~error.node.present

collapsableDetails(error) ==
    IF ~Truthy(error.description) THEN <<>>
    ELSE <<"<br>", "<br>", "<details>", "<summary>", "showDetails", "</summary>",
           "<p>">>
         \o NodeDotName(error.node) \o <<": ">>
         \o ErrorDescription(error.description.v)
         \o <<"</p>", "</details>">>

\* `${x}` of a string | undefined
Interpolate(m) == IF m.def THEN m.v ELSE <<"undefined">>

\* part_000:149
MessageLine(message) == IF Truthy(message) THEN message.v \o <<"<br/>">> ELSE <<>>

\* part_000:151-159
ErrorMessageData(error, message) ==
    [message |-> Some(MessageLine(message)
                      \o <<"<i>">> \o Interpolate(error.message) \o <<"</i>">>
                      \o collapsableDetails(error)),
     type |-> "error",
     duration |-> Dur(0),
     position |-> "undefined",
     onClick |-> "undefined"]

\* part_000:160: the track argument showError passes to showMessage
ShowErrorTrack == FALSE

\* part_000:169-175
ShowErrorEvent(error, message) ==
    [name |-> "Instance FE emitted error",
     error_description |-> message,
     error_message |-> error.message,
     caused_by_credential |-> causedByCredential(error.message)]

\* part_000:163-167
ShowErrorHook(error, message) ==
    [name |-> "showMessage.showError",
     message |-> message,
     errorMessage |-> error.message]

---------------------------------------------------------------------------
\* confirmMessage, part_000:178-199, and confirmModal, part_000:201-224

NoDialog == [fn |-> "none"]

\* function parameter default: type = 'warning' (part_000:181, 204)
TypeOrDefault(type) == IF type = "undefined" THEN "warning" ELSE type

\* part_000:186-191 and 210-216; ...(type && { type }) leaves type out for null
DialogOptions(type, confirmButtonText, cancelButtonText, showClose) ==
    [confirmButtonText |-> IF Truthy(confirmButtonText) THEN confirmButtonText.v
                           ELSE <<"showMessage.ok">>,
     cancelButtonText |-> IF Truthy(cancelButtonText) THEN cancelButtonText.v
                          ELSE <<"showMessage.cancel">>,
     dangerouslyUseHTMLString |-> TRUE,
     showClose |-> showClose,
     type |-> IF TypeOrDefault(type) = "null" THEN "undefined"
              ELSE TypeOrDefault(type)]

\* How an awaiting function ends: it returns a value or throws one.
Returns(x) == [threw |-> FALSE, value |-> x]

Throws(x) == [threw |-> TRUE, value |-> x]

\* part_000:194-198: await inside try; return true; catch: return false
confirmMessageNoCatch(outcome) ==
    IF outcome.settled = "resolve" THEN Returns(TRUE) ELSE Throws(outcome.value)

confirmMessageResult(outcome) ==
    IF outcome.settled = "resolve" THEN Returns(TRUE) ELSE Returns(FALSE)

\* part_000:219-223: return 'confirmed'; catch (e): return e
confirmModalCollapsed(outcome) ==
    IF outcome.settled = "resolve" THEN Returns("confirmed") ELSE Returns("cancel")

confirmModalResult(outcome) ==
    IF outcome.settled = "resolve" THEN Returns("confirmed")
    ELSE Returns(outcome.value)

---------------------------------------------------------------------------
\* getExecutionError, part_000:123-145

GenericFailure == Some(<<"There was a problem executing the workflow!">>)

Templated(receivedError) ==
    Some(<<"There was a problem executing the workflow:<br /><strong>\"">>
         \o receivedError \o <<"\"</strong>">>)

\* part_000:134-137
NodeName(error) ==
    IF ~error.node.present THEN None ELSE Some(error.node.name)

\* An error's node field: absent, a plain node name, or a node object.
NoNode == [present |-> FALSE, kind |-> "undefined", name |-> <<>>]

NodeString(name) == [present |-> TRUE, kind |-> "string", name |-> name]

NodeObject(name) == [present |-> TRUE, kind |-> "object", name |-> name]

\* part_000:139
ReceivedError(error) ==
    IF Truthy(NodeName(error))
    THEN NodeName(error).v \o <<": ">> \o error.message.v
    ELSE error.message.v

\* a || b on string | undefined
OrElse(a, b) == IF Truthy(a) THEN a ELSE b

getExecutionErrorMessageOnly(data) ==
    IF Truthy(data.lastNodeExecuted) /\ data.error.present
    THEN data.error.message
    ELSE IF data.error.present /\ Truthy(data.error.message)
         THEN Templated(ReceivedError(data.error))
         ELSE GenericFailure

getExecutionError(data) ==
    IF Truthy(data.lastNodeExecuted) /\ data.error.present
    THEN OrElse(data.error.message, data.error.description)
    ELSE IF data.error.present /\ Truthy(data.error.message)
         THEN Templated(ReceivedError(data.error))
         ELSE GenericFailure

---------------------------------------------------------------------------
\* Inputs

Severities == {"info", "success", "warning", "error"}

Durations == {NoDuration, Dur(0), Dur(4500)}

Bodies ==
    {None,
     Some(<<>>),
     Some(<<"Credentials", "for", "Slack", "are", "not", "set">>),
     Some(<<"Credentials", "for", "Slack">>),
     Some(<<"Credentials", "<script>", "for", "Slack", "are", "not", "set">>)}

Handlers == {"undefined", "cb"}

MessageSpecs ==
    [message : Bodies, type : Severities, duration : Durations,
     position : {"undefined"}, onClick : {"undefined"}]

ToastConfigs ==
    [message : {<<"saved">>}, type : {"undefined", "error"},
     duration : {NoDuration, Dur(0)},
     onClick : Handlers, closeOnClick : BOOLEAN]

AlertConfigs == [type : {"info", "error"}, duration : {NoDuration, Dur(0)}]

Nodes == {NoNode, NodeString(<<"Node1">>), NodeObject(<<"Node1">>)}

ErrorMessages ==
    {None, Some(<<"boom">>),
     Some(<<"Credentials", "for", "Slack", "are", "not", "set">>)}

Descriptions == {None, Some(<<"more", "details">>)}

ErrorTitlesMessages == {None, Some(<<"Problem", "saving">>)}

Errors == [message : ErrorMessages, description : Descriptions, node : Nodes]

NoError == [present |-> FALSE]

RunDatas ==
    [lastNodeExecuted : {None, Some(<<>>), Some(<<"Node1">>)},
     error : {NoError}
             \cup [present : {TRUE},
                   message : ErrorMessages \cup {Some(<<>>)},
                   description : Descriptions,
                   node : Nodes \cup {NodeObject(<<>>), NodeString(<<>>)}]]

DialogMessages == {<<"Delete", "workflow?">>, <<"Delete", "<script>", "workflow?">>}

DialogTypes == {"undefined", "null", "error"}

ButtonTexts == {None, Some(<<"Yes">>)}

DialogOutcomes ==
    {[settled |-> "resolve", value |-> "confirm"],
     [settled |-> "reject", value |-> "cancel"],
     [settled |-> "reject", value |-> "close"]}

Handles == 1..Len(notifications)

---------------------------------------------------------------------------
Init ==
    /\ stickyNotificationQueue = <<>>
    /\ notifications = <<>>
    /\ configs = <<>>
    /\ telemetry = <<>>
    /\ hooks = <<>>
    /\ dialog = NoDialog
    /\ lastOp = [op |-> "init"]

ShowMessage ==
    \E messageData \in MessageSpecs, track \in BOOLEAN :
        /\ NextHandle <= MaxHandles
        /\ showMessage(messageData, track)
        /\ configs' = Append(configs, NoConfig)
        /\ telemetry' = TrackedBy(messageData, track)
        /\ hooks' = <<>>
        /\ lastOp' = [op |-> "showMessage",
                      messageData |-> messageData, track |-> track,
                      shown |-> ShownData(messageData),
                      ret |-> NextHandle]
        /\ UNCHANGED dialog

\* showToast calls showMessage with the default track = true (part_000:59).
ShowToast ==
    \E config \in ToastConfigs :
        /\ NextHandle <= MaxHandles
        /\ showMessage(ToastMessageData(config), TRUE)
        /\ configs' = Append(configs, ConfigAfterToast(config))
        /\ telemetry' = TrackedBy(ToastMessageData(config), TRUE)
        /\ hooks' = <<>>
        /\ lastOp' = [op |-> "showToast",
                      config |-> config,
                      shown |-> ShownData(ToastMessageData(config)),
                      ret |-> NextHandle]
        /\ UNCHANGED dialog

\* showAlert, part_000:121: Message(config), a handle of the library's other
\* component; the queue is not touched.
ShowAlert ==
    \E config \in AlertConfigs :
        /\ NextHandle <= MaxHandles
        /\ notifications' = Append(notifications, Message(config))
        /\ configs' = Append(configs, NoConfig)
        /\ telemetry' = <<>>
        /\ hooks' = <<>>
        /\ lastOp' = [op |-> "showAlert", config |-> config, ret |-> NextHandle]
        /\ UNCHANGED <<stickyNotificationQueue, dialog>>

\* collapsableDetails throws while the message is being built, before showMessage,
\* externalHooks.run and telemetry.track are reached.
ShowErrorThrows ==
    \E error \in Errors, message \in ErrorTitlesMessages :
        /\ CollapsableDetailsThrows(error)
        /\ telemetry' = <<>>
        /\ hooks' = <<>>
        /\ lastOp' = [op |-> "showError", error |-> error, message |-> message,
                      threw |-> TRUE]
        /\ UNCHANGED <<stickyNotificationQueue, notifications, configs, dialog>>

ShowErrorShows ==
    \E error \in Errors, message \in ErrorTitlesMessages :
        /\ ~CollapsableDetailsThrows(error)
        /\ NextHandle <= MaxHandles
        /\ showMessage(ErrorMessageData(error, message), ShowErrorTrack)
        /\ configs' = Append(configs, NoConfig)
        /\ hooks' = <<ShowErrorHook(error, message)>>
        /\ telemetry' = TrackedBy(ErrorMessageData(error, message), ShowErrorTrack)
                        \o <<ShowErrorEvent(error, message)>>
        /\ lastOp' = [op |-> "showError", error |-> error, message |-> message,
                      threw |-> FALSE,
                      shown |-> ShownData(ErrorMessageData(error, message)),
                      ret |-> NextHandle]
        /\ UNCHANGED dialog

ShowError == ShowErrorThrows \/ ShowErrorShows

ClearAllStickyNotifications ==
    /\ notifications' = ClosedByClear(notifications, stickyNotificationQueue)
    /\ stickyNotificationQueue' = QueueAfterClear(stickyNotificationQueue)
    /\ telemetry' = <<>>
    /\ hooks' = <<>>
    /\ lastOp' = [op |-> "clearAllStickyNotifications",
                  queue |-> stickyNotificationQueue,
                  wasOpen |-> [h \in Handles |-> notifications[h].open]]
    /\ UNCHANGED <<configs, dialog>>

\* The user closes a displayed notification, or its duration runs out: the
\* library removes it; the service is not told.
Dismiss ==
    \E h \in Handles :
        /\ notifications[h].open
        /\ notifications' = [notifications EXCEPT ![h].open = FALSE]
        /\ lastOp' = [op |-> "dismiss", h |-> h]
        /\ UNCHANGED <<stickyNotificationQueue, configs, telemetry, hooks, dialog>>

\* The user clicks a displayed notification: the library calls the onClick it was
\* given (its options object, not the caller's config).
Click ==
    \E h \in Handles :
        /\ notifications[h].open
        /\ notifications[h].kind = "notification"
        /\ notifications' =
             IF \E i \in DOMAIN HandlerTrace(notifications[h].onClick) :
                    HandlerTrace(notifications[h].onClick)[i] = "close"
             THEN [notifications EXCEPT ![h] = Close(@)]
             ELSE notifications
        /\ lastOp' = [op |-> "click", h |-> h,
                      trace |-> HandlerTrace(notifications[h].onClick)]
        /\ UNCHANGED <<stickyNotificationQueue, configs, telemetry, hooks, dialog>>

---------------------------------------------------------------------------
\* The confirm dialogs.  confirmMessage and confirmModal read and write nothing
\* of the notification state, so they are explored on their own.

ConfirmMessage ==
    \E message \in DialogMessages, type \in DialogTypes,
       confirmButtonText \in ButtonTexts, cancelButtonText \in ButtonTexts :
        /\ dialog = NoDialog
        /\ dialog' = [fn |-> "confirmMessage",
                      message |-> sanitizeHtml(message),
                      options |-> DialogOptions(type, confirmButtonText,
                                                cancelButtonText, "undefined")]
        /\ lastOp' = [op |-> "openDialog", fn |-> "confirmMessage"]
        /\ UNCHANGED <<stickyNotificationQueue, notifications, configs,
                       telemetry, hooks>>

ConfirmModal ==
    \E message \in DialogMessages, type \in DialogTypes,
       confirmButtonText \in ButtonTexts, cancelButtonText \in ButtonTexts,
       showClose \in {"false", "true"} :
        /\ dialog = NoDialog
        /\ dialog' = [fn |-> "confirmModal",
                      message |-> sanitizeHtml(message),
                      options |-> DialogOptions(type, confirmButtonText,
                                                cancelButtonText, showClose)]
        /\ lastOp' = [op |-> "openDialog", fn |-> "confirmModal"]
        /\ UNCHANGED <<stickyNotificationQueue, notifications, configs,
                       telemetry, hooks>>

\* The dialog's promise settles and the awaiting function ends.
ConfirmMessageSettles ==
    \E outcome \in DialogOutcomes :
        /\ dialog.fn = "confirmMessage"
        /\ dialog' = NoDialog
        /\ lastOp' = [op |-> "confirmMessage", dialog |-> dialog,
                      outcome |-> outcome, end |-> confirmMessageResult(outcome)]
        /\ UNCHANGED <<stickyNotificationQueue, notifications, configs,
                       telemetry, hooks>>

ConfirmModalSettles ==
    \E outcome \in DialogOutcomes :
        /\ dialog.fn = "confirmModal"
        /\ dialog' = NoDialog
        /\ lastOp' = [op |-> "confirmModal", dialog |-> dialog,
                      outcome |-> outcome, end |-> confirmModalResult(outcome)]
        /\ UNCHANGED <<stickyNotificationQueue, notifications, configs,
                       telemetry, hooks>>

NextDialog ==
    \/ ConfirmMessage
    \/ ConfirmModal
    \/ ConfirmMessageSettles
    \/ ConfirmModalSettles

SpecDialog == Init /\ [][NextDialog]_vars

---------------------------------------------------------------------------
\* getExecutionError, run between operations that change the notification state.

GetExecutionError ==
    \E data \in RunDatas :
        /\ telemetry' = <<>>
        /\ hooks' = <<>>
        /\ lastOp' = [op |-> "getExecutionError", data |-> data,
                      ret |-> getExecutionError(data)]
        /\ UNCHANGED <<stickyNotificationQueue, notifications, configs, dialog>>

NextExec ==
    \/ GetExecutionError
    \/ ShowError
    \/ Dismiss
    \/ ClearAllStickyNotifications

SpecExec == Init /\ [][NextExec]_vars

---------------------------------------------------------------------------
Next ==
    \/ ShowMessage
    \/ ShowToast
    \/ ShowAlert
    \/ ShowError
    \/ ClearAllStickyNotifications
    \/ Dismiss
    \/ Click

Spec == Init /\ [][Next]_vars
---------------------------------------------------------------------------
\* Properties

InQueue(h) == \E i \in DOMAIN stickyNotificationQueue : stickyNotificationQueue[i] = h

\* How often h occurs in a sequence of handles
Occurrences(h, queue) == Cardinality({i \in DOMAIN queue : queue[i] = h})

CredentialPhrases(text) ==
    /\ Includes(text, <<"Credentials", "for">>)
    /\ Includes(text, <<"are", "not", "set">>)

\* C1: the handle returned by showMessage for a spec with duration 0 is in the
\* sticky queue right after the call, whatever the severity, the track flag and
\* the operations before it.
C1_StickyHandleEnqueued ==
    (lastOp.op = "showMessage" /\ lastOp.messageData.duration = Dur(0))
        => InQueue(lastOp.ret)

C1_Witness ==
    /\ lastOp.op = "showMessage"
    /\ lastOp.messageData.duration = Dur(0)
    /\ lastOp.messageData.type = "info"
    /\ ~lastOp.track
    /\ lastOp.ret = 2
    /\ InQueue(lastOp.ret)

\* C2: clearAllStickyNotifications empties the queue and calls close exactly once
\* on every handle that was in it, dismissed by the user or not; a user's dismissal
\* removes nothing from the queue; no handle is ever closed by it twice.
C2_ClearClosesEachOnce ==
    /\ [](\A h \in Handles : notifications[h].closeCalls <= 1)
    /\ [][lastOp'.op = "clearAllStickyNotifications"
            => /\ stickyNotificationQueue' = <<>>
               /\ \A h \in Handles :
                     notifications'[h].closeCalls
                       = notifications[h].closeCalls
                         + Occurrences(h, stickyNotificationQueue)
               /\ \A h \in Handles :
                     InQueue(h) => Occurrences(h, stickyNotificationQueue) = 1]_vars
    /\ [][lastOp'.op = "dismiss"
            => stickyNotificationQueue' = stickyNotificationQueue]_vars

C2_Witness ==
    /\ lastOp.op = "clearAllStickyNotifications"
    /\ Len(lastOp.queue) = 2
    /\ \E i \in DOMAIN lastOp.queue : ~lastOp.wasOpen[lastOp.queue[i]]
    /\ \E i \in DOMAIN lastOp.queue : lastOp.wasOpen[lastOp.queue[i]]
    /\ \A i \in DOMAIN lastOp.queue : notifications[lastOp.queue[i]].closeCalls = 1
    /\ stickyNotificationQueue = <<>>

\* C3: a notification shown with a duration other than 0 is in the sticky queue in
\* no later state.
C3_NonStickyNeverEnqueued ==
    \A h \in Handles :
        (notifications[h].kind = "notification" /\ notifications[h].duration # Dur(0))
            => ~InQueue(h)

C3_Witness ==
    /\ Len(notifications) = 2
    /\ notifications[1].kind = "notification"
    /\ notifications[1].duration = Dur(4500)
    /\ notifications[2].duration = Dur(0)
    /\ lastOp.op = "clearAllStickyNotifications"
    /\ lastOp.queue = <<2>>
    /\ ~InQueue(1)

\* C4 as stated: between bulk clears a handle is in the sticky queue iff it was
\* shown with a duration that is zero or unset.
C4_QueuedIffZeroOrUnset ==
    \A h \in Handles :
        (notifications[h].kind = "notification" /\ notifications[h].closeCalls = 0)
            => (InQueue(h) <=> (~notifications[h].duration.def
                                \/ notifications[h].duration = Dur(0)))

\* C4 amended: between bulk clears a notification handle is in the sticky queue
\* iff it was shown with duration exactly 0; one shown with no duration is not in
\* the queue, and no alert handle is.
C4_QueuedIffZero ==
    \A h \in Handles :
        /\ (notifications[h].kind = "notification" /\ notifications[h].closeCalls = 0)
              => (InQueue(h) <=> notifications[h].duration = Dur(0))
        /\ notifications[h].kind = "message" => ~InQueue(h)

C4_Witness ==
    /\ lastOp.op = "showToast"
    /\ ~lastOp.config.duration.def
    /\ lastOp.ret = 2
    /\ ~InQueue(2)
    /\ notifications[1].duration = Dur(0)
    /\ InQueue(1)

\* C5: confirmMessage ends by returning, never by throwing; it returns true only
\* when the dialog resolved and false whenever the dialog rejected.
C5_ConfirmBoolean ==
    lastOp.op = "confirmMessage"
        => /\ ~lastOp.end.threw
           /\ lastOp.end.value = TRUE <=> lastOp.outcome.settled = "resolve"
           /\ lastOp.outcome.settled = "reject" => lastOp.end.value = FALSE

C5_Witness ==
    /\ lastOp.op = "confirmMessage"
    /\ lastOp.outcome = [settled |-> "reject", value |-> "close"]
    /\ lastOp.end = Returns(FALSE)

\* C6: confirmModal ends by returning, never by throwing; it returns "confirmed"
\* when the dialog resolved and the very value the dialog rejected with otherwise.
C6_ConfirmDetailed ==
    lastOp.op = "confirmModal"
        => /\ ~lastOp.end.threw
           /\ lastOp.outcome.settled = "resolve" => lastOp.end.value = "confirmed"
           /\ lastOp.outcome.settled = "reject"
                => lastOp.end.value = lastOp.outcome.value

C6_Witness ==
    /\ lastOp.op = "confirmModal"
    /\ lastOp.outcome = [settled |-> "reject", value |-> "close"]
    /\ lastOp.end = Returns("close")

\* C7 as stated: every call of showError shows a sticky error notification whose
\* handle is queued, runs the hook once and emits exactly one telemetry event.
C7_ShowErrorAlwaysReports ==
    lastOp.op = "showError"
        => /\ ~lastOp.threw
           /\ lastOp.shown.type = "error"
           /\ lastOp.shown.duration = Dur(0)
           /\ InQueue(lastOp.ret)
           /\ Len(hooks) = 1
           /\ Len(telemetry) = 1

\* What does hold: a call of showError that gets past building its message does
\* all of the above.
ShowErrorReportsWhenBuilt ==
    (lastOp.op = "showError" /\ ~lastOp.threw)
        => /\ lastOp.shown.type = "error"
           /\ lastOp.shown.duration = Dur(0)
           /\ InQueue(lastOp.ret)
           /\ Len(hooks) = 1
           /\ Len(telemetry) = 1

\* The event showMessage emits and the queueing of its handle, but for the value
\* of caused_by_credential.
ShowMessageTracks ==
    /\ Len(telemetry) = 1 <=> (lastOp.messageData.type = "error" /\ lastOp.track)
    /\ Len(telemetry) <= 1
    /\ InQueue(lastOp.ret) <=> lastOp.messageData.duration = Dur(0)

\* C8 as stated: showMessage emits one event iff the severity is error and track
\* is set; its caused_by_credential is true exactly when the body handed in
\* contains both phrases; the handle is queued whether or not an event is emitted.
C8_CredentialFromBody ==
    lastOp.op = "showMessage"
        => /\ ShowMessageTracks
           /\ Len(telemetry) = 1
                => (telemetry[1].caused_by_credential
                      <=> /\ lastOp.messageData.message.def
                          /\ CredentialPhrases(lastOp.messageData.message.v))

\* C8 amended: the same, with caused_by_credential true exactly when the body as
\* displayed, after sanitizing, contains both phrases.
C8_CredentialFromShownBody ==
    lastOp.op = "showMessage"
        => /\ ShowMessageTracks
           /\ Len(telemetry) = 1
                => (telemetry[1].caused_by_credential
                      <=> /\ lastOp.shown.message.def
                          /\ CredentialPhrases(lastOp.shown.message.v))

C8_Witness ==
    /\ lastOp.op = "showMessage"
    /\ lastOp.messageData.type = "error"
    /\ lastOp.messageData.duration = Dur(0)
    /\ lastOp.messageData.message
         = Some(<<"Credentials", "for", "Slack", "are", "not", "set">>)
    /\ lastOp.track
    /\ Len(telemetry) = 1
    /\ telemetry[1].caused_by_credential
    /\ InQueue(lastOp.ret)

\* C9 as stated: a click on a toast created with closeOnClick closes the
\* notification first and only then runs the caller's handler; the handler the
\* notification holds is the wrapping one.
C9_ClickClosesFirst ==
    (lastOp.op = "click" /\ configs[lastOp.h].closeOnClick)
        => /\ notifications[lastOp.h].onClick = configs[lastOp.h].onClick
           /\ lastOp.trace = HandlerTrace(configs[lastOp.h].onClick)
           /\ lastOp.trace[1] = "close"
           /\ ~notifications[lastOp.h].open

\* C10: getExecutionError changes nothing and emits nothing, and returns the
\* error's message (its description when the message is empty) when a last node
\* and an error are given; else the generic sentence when there is no error or no
\* message; else the templated sentence around the message, with the node's name
\* and ": " before it when the node field yields a name.
GetExecutionErrorReturn(data, ret) ==
    LET named == data.lastNodeExecuted.def /\ data.lastNodeExecuted.v # <<>>
        hasMessage == data.error.present /\ data.error.message.def
                      /\ data.error.message.v # <<>>
        hasNodeName == data.error.present /\ data.error.node.present
                       /\ data.error.node.name # <<>>
    IN /\ (named /\ hasMessage) => ret = data.error.message
       /\ (named /\ data.error.present /\ ~hasMessage) => ret = data.error.description
       /\ ((~named \/ ~data.error.present) /\ ~hasMessage)
            => ret = Some(<<"There was a problem executing the workflow!">>)
       /\ ((~named \/ ~data.error.present) /\ hasMessage /\ hasNodeName)
            => ret = Some(<<"There was a problem executing the workflow:<br /><strong>\"">>
                          \o data.error.node.name \o <<": ">> \o data.error.message.v
                          \o <<"\"</strong>">>)
       /\ ((~named \/ ~data.error.present) /\ hasMessage /\ ~hasNodeName)
            => ret = Some(<<"There was a problem executing the workflow:<br /><strong>\"">>
                          \o data.error.message.v
                          \o <<"\"</strong>">>)

====
